---- MODULE Spec2Model ----
(***************************************************************************)
(* xoriaz: gen / split / xor over files of BIP-39 mnemonics (src/main.rs). *)
(*                                                                         *)
(* A process is one invocation of main(): the parsed command line (cmd,    *)
(* source, dest, lines), the filesystem it acts on (exist, data), its     *)
(* standard output (out) and the locals of the running function.          *)
(*                                                                         *)
(* A Secret is modelled by one bit of the 32-byte entropy: the code only   *)
(* ever combines secrets with a bytewise ^=, which acts on every bit       *)
(* position independently.  A line of a file is a record: its text form    *)
(* (kind) and, when it parses, the entropy it carries (ent).               *)
(***************************************************************************)
EXTENDS Integers, Sequences, FiniteSets, TLC

\* Longest file (in lines) and largest `--lines` the model draws.
MaxLines == 2
\* Longest list of paths on a command line (split dest, xor source, gen dest).
MaxFiles == 3

\* Path names: enough for MaxFiles inputs and an output, or a source and
\* MaxFiles destinations.
Paths == 1 .. (MaxFiles + 1)

\* [0u8; 32], one bit of it
Secrets == {0, 1}
ZeroSecret == 0

\* *s ^= b  (main.rs:150, main.rs:196)
XorAssignOverwrite(s, b) == b
XorAssign(s, b) == (s + b) % 2

----------------------------------------------------------------------------
(* The codec (crate bip39), as main.rs uses it.                            *)
(*   canon  : 24 words separated by single spaces, what Display prints    *)
(*   spaced : the same words with other whitespace between or around them  *)
(*   short  : a valid mnemonic of fewer than 24 words                      *)
(*   bad    : anything parse_in_normalized rejects                         *)

Line(k, e) == [kind |-> k, ent |-> e]
BadLine == Line("bad", ZeroSecret)
ShortLine == Line("short", ZeroSecret)

\* Mnemonic::from_entropy(buf).unwrap() written with "{}"
Encode(s) == Line("canon", s)
\* Mnemonic::parse_in_normalized(English, &str) is Ok
Parses(l) == l.kind \in {"canon", "spaced", "short"}
\* to_entropy_array() returned len == 32
Is32(l) == l.kind \in {"canon", "spaced"}
\* the entropy of a parsed line
Decode(l) == l.ent
Decodable(l) == Parses(l) /\ Is32(l)

GoodLines == {Line(k, e) : k \in {"canon", "spaced"}, e \in Secrets}
CanonLines == {Encode(e) : e \in Secrets}

SeqsUpTo(S, n) == UNION {[1 .. m -> S] : m \in 0 .. n}

----------------------------------------------------------------------------
VARIABLES
    exist,      \* the paths that name a file
    data,       \* data[p]: the lines of the file at p (<<>> when none)
    exist0,     \* exist and data when the process started
    data0,
    cmd,        \* Command: "gen" | "split" | "xor"
    source,     \* Split.source (one path) / Xor.source, as a sequence
    dest,       \* Gen.dest / Split.dest / Xor.dest (Option: <<>> or <<p>>)
    lines,      \* Gen.lines
    pc,         \* where the process is; "done" and "panic" are its two ends
    err,        \* the panic: message, and the {i} and {f} it prints
    nfiles,     \* create_files: files.len()
    pos,        \* pos[k]: lines already read from the k-th open reader
    i,          \* split / xor_inner: i
    f,          \* xor_inner: f; gen: files already generated
    finishing,  \* xor_inner: finishing
    buf,        \* xor_inner: buf
    bufs,       \* split: bufs
    out,        \* lines written to stdout
    prev        \* the process run before this one (cmd, args, end, output)

vars == <<exist, data, exist0, data0, cmd, source, dest, lines, pc, err,
          nfiles, pos, i, f, finishing, buf, bufs, out, prev>>

fsvars == <<exist, data>>
args == <<cmd, source, dest, lines>>
hist == <<exist0, data0, prev>>

\* a diagnostic that does not print {i} (or {f}) carries -1 there
NoErr == [msg |-> "none", i |-> 0, f |-> 0]
Panic(m, ii, ff) == [msg |-> m, i |-> ii, f |-> ff]
NoPrev == [cmd |-> "none", source |-> <<>>, dest |-> <<>>, pc |-> "none", w |-> <<>>]

\* the locals of a process that has not run yet
LocalsInit ==
    /\ err = NoErr
    /\ nfiles = 0
    /\ pos = <<>>
    /\ i = 0
    /\ f = 0
    /\ finishing = FALSE
    /\ buf = ZeroSecret
    /\ bufs = <<>>
    /\ out = <<>>

\* main: the match on the subcommand; gen starts with create_files, split
\* with open_file and xor with open_files
EntryCreateFirst(c) == "create"
Entry(c) == IF c = "gen" THEN "create" ELSE "open"

----------------------------------------------------------------------------
(* Files.                                                                  *)

\* read_line(..) == 0: the reader has no line left
EndOfStreamEarly(file, n) == n + 1 >= Len(file)
EndOfStream(file, n) == n >= Len(file)

\* OpenOptions::new().read(true).open(path) is Ok
CanOpenAlways(ex, p) == TRUE
CanOpen(ex, p) == p \in ex

\* opts.create_new(true).write(true).open(path) is Ok
CanCreateAlways(ex, p) == TRUE
CanCreate(ex, p) == p \notin ex

\* create_files, the Err arm: for (file, path) in zip(files, paths) remove_file(path)
RolledBackNone(paths, n) == {}
RolledBack(paths, n) == {paths[k] : k \in 1 .. n}

\* writeln!(file, "{}", mnemonic)
WriteLine(d, p, l) == [d EXCEPT ![p] = Append(@, l)]

\* create_files: one turn of `for path in paths`, the Ok arm
CreateOne ==
    /\ pc = "create"
    /\ nfiles < Len(dest)
    /\ CanCreate(exist, dest[nfiles + 1])
    /\ exist' = exist \cup {dest[nfiles + 1]}
    /\ data' = [data EXCEPT ![dest[nfiles + 1]] = <<>>]
    /\ nfiles' = nfiles + 1
    /\ UNCHANGED <<args, hist, pc, err, pos, i, f, finishing, buf, bufs, out>>

\* create_files: the Err arm, the rollback and the panic
CreateFail ==
    /\ pc = "create"
    /\ nfiles < Len(dest)
    /\ ~CanCreate(exist, dest[nfiles + 1])
    /\ LET gone == RolledBack(dest, nfiles) \cap exist IN
        /\ exist' = exist \ gone
        /\ data' = [p \in Paths |-> IF p \in gone THEN <<>> ELSE data[p]]
    /\ pc' = "panic"
    /\ err' = Panic("btw, I won't overwrite", -1, -1)
    /\ nfiles' = 0
    /\ UNCHANGED <<args, hist, pos, i, f, finishing, buf, bufs, out>>

\* create_files returns files; gen and split go on
CreateDone ==
    /\ pc = "create"
    /\ nfiles = Len(dest)
    /\ pc' = cmd
    /\ bufs' = IF cmd = "split" THEN [k \in 1 .. (Len(dest) - 1) |-> ZeroSecret] ELSE bufs
    /\ UNCHANGED <<fsvars, args, hist, err, nfiles, pos, i, f, finishing, buf, out>>

\* split: open_file(&source)
OpenSource ==
    /\ pc = "open"
    /\ cmd = "split"
    /\ IF CanOpen(exist, source[1])
       THEN /\ pc' = "create"
            /\ pos' = <<0>>
            /\ err' = err
       ELSE /\ pc' = "panic"
            /\ pos' = pos
            /\ err' = Panic("couldn't open for reading", -1, -1)
    /\ UNCHANGED <<fsvars, args, hist, nfiles, i, f, finishing, buf, bufs, out>>

\* xor: open_files(&source)
OpenFiles ==
    /\ pc = "open"
    /\ cmd = "xor"
    /\ IF \A k \in 1 .. Len(source) : CanOpen(exist, source[k])
       THEN /\ pc' = IF dest = <<>> THEN "xor" ELSE "create_file"
            /\ pos' = [k \in 1 .. Len(source) |-> 0]
            /\ err' = err
       ELSE /\ pc' = "panic"
            /\ pos' = pos
            /\ err' = Panic("couldn't open for reading", -1, -1)
    /\ UNCHANGED <<fsvars, args, hist, nfiles, i, f, finishing, buf, bufs, out>>

\* xor: create_file(&path) for -o
CreateFile ==
    /\ pc = "create_file"
    /\ IF CanCreate(exist, dest[1])
       THEN /\ exist' = exist \cup {dest[1]}
            /\ data' = [data EXCEPT ![dest[1]] = <<>>]
            /\ nfiles' = 1
            /\ pc' = "xor"
            /\ err' = err
       ELSE /\ UNCHANGED <<fsvars, nfiles>>
            /\ pc' = "panic"
            /\ err' = Panic("btw, I won't overwrite", -1, -1)
    /\ UNCHANGED <<args, hist, pos, i, f, finishing, buf, bufs, out>>

----------------------------------------------------------------------------
(* gen                                                                     *)

\* gen_inner: `for _ in 0..lines`, one random Secret written per turn
GenInnerOneShort(n, rnd) == [k \in 1 .. (n - 1) |-> Encode(rnd[k])]
GenInner(n, rnd) == [k \in 1 .. n |-> Encode(rnd[k])]

\* if new_files.is_empty()
ToStdoutAlways(n) == TRUE
ToStdout(n) == n = 0

\* gen_inner(stdout().lock(), lines) when create_files returned no file
GenStdout ==
    /\ pc = "gen"
    /\ ToStdout(nfiles)
    /\ \E rnd \in [1 .. lines -> Secrets] :
          out' = out \o GenInner(lines, rnd)
    /\ pc' = "done"
    /\ UNCHANGED <<fsvars, args, hist, err, nfiles, pos, i, f, finishing, buf, bufs>>

\* one turn of `for file in new_files`: gen_inner(BufWriter::new(file), lines)
GenFile ==
    /\ pc = "gen"
    /\ f < nfiles
    /\ \E rnd \in [1 .. lines -> Secrets] :
          data' = [data EXCEPT ![dest[f + 1]] = @ \o GenInner(lines, rnd)]
    /\ f' = f + 1
    /\ pc' = IF f + 1 = nfiles THEN "done" ELSE "gen"
    /\ UNCHANGED <<exist, args, hist, err, nfiles, pos, i, finishing, buf, bufs, out>>

----------------------------------------------------------------------------
(* split                                                                   *)

\* src after `for (buf, file) in zip(&mut bufs, rest)` has folded pads 1..k into it
FoldFirstOnly(src, pads, k) ==
    IF k = 0 THEN src ELSE XorAssign(src, pads[1])
RECURSIVE Fold(_, _, _)
Fold(src, pads, k) ==
    IF k = 0 THEN src ELSE XorAssign(Fold(src, pads, k - 1), pads[k])

\* the line split appends to destination k (1: first, 2..N: rest)
ShareNoPad(k, src, pads) ==
    IF k = 1 THEN Encode(src) ELSE Encode(pads[k - 1])
Share(k, src, pads) ==
    IF k = 1 THEN Encode(Fold(src, pads, Len(pads))) ELSE Encode(pads[k - 1])

\* one turn of `while source.read_line(&mut str).unwrap() != 0`, or its end
SplitStep ==
    /\ pc = "split"
    /\ LET file == data[source[1]]
           n == pos[1]
       IN  IF EndOfStream(file, n)
           THEN /\ pc' = "done"
                /\ UNCHANGED <<fsvars, err, pos, i, bufs>>
           ELSE LET str == file[n + 1] IN
                /\ pos' = [pos EXCEPT ![1] = n + 1]
                /\ IF ~Parses(str)
                   THEN /\ pc' = "panic"
                        /\ err' = Panic("error on line", i, -1)
                        /\ UNCHANGED <<fsvars, i, bufs>>
                   ELSE IF ~Is32(str)
                   THEN /\ pc' = "panic"
                        /\ err' = Panic("assertion failed", -1, -1)
                        /\ i' = i + 1
                        /\ UNCHANGED <<fsvars, bufs>>
                   ELSE \E pads \in [1 .. (Len(dest) - 1) -> Secrets] :
                        /\ bufs' = pads
                        /\ i' = i + 1
                        /\ data' = [p \in Paths |->
                                      IF \E k \in 1 .. Len(dest) : dest[k] = p
                                      THEN Append(data[p],
                                                  Share(CHOOSE k \in 1 .. Len(dest) : dest[k] = p,
                                                        Decode(str), pads))
                                      ELSE data[p]]
                        /\ UNCHANGED <<exist, pc, err>>
    /\ UNCHANGED <<args, hist, nfiles, f, finishing, buf, out>>

----------------------------------------------------------------------------
(* xor                                                                     *)

\* `if f == 0` under `if len == 0`
FirstToEndNever(ff) == FALSE
FirstToEnd(ff) == ff = 0

\* `else if !finishing { panic!("file {f} suddenly ended") }`
SuddenlyEnded(ff, fin) == ~FirstToEnd(ff) /\ ~fin

\* `else if finishing { panic!("file {f} continues longer than previous file") }`
ContinuesLongerNever(fin) == FALSE
ContinuesLonger(fin) == fin

\* *buf = [0; 32] at the end of a round
NextRoundBufKept(b) == b
NextRoundBuf(b) == ZeroSecret

\* `for file in &mut *inputs`, from the k-th reader on; st holds the locals
\* the loop changes and the panic that ends it, if any
RECURSIVE ForInputs(_, _)
ForInputs(k, st) ==
    IF k > Len(source) \/ st.err # NoErr THEN st
    ELSE LET file == data[source[k]]
             n == st.pos[k]
         IN  IF EndOfStream(file, n)
             THEN IF FirstToEnd(st.f)
                  THEN ForInputs(k + 1, [st EXCEPT !.finishing = TRUE])
                  ELSE IF SuddenlyEnded(st.f, st.finishing)
                  THEN [st EXCEPT !.err = Panic("suddenly ended", -1, st.f)]
                  ELSE ForInputs(k + 1, st)
             ELSE LET str == file[n + 1]
                      read == [st EXCEPT !.pos[k] = n + 1]
                  IN  IF ContinuesLonger(st.finishing)
                      THEN [read EXCEPT !.err = Panic("continues longer than previous file", -1, st.f)]
                      ELSE IF ~Parses(str)
                      THEN [read EXCEPT !.err = Panic("error on line", i, st.f)]
                      ELSE IF ~Is32(str)
                      THEN [read EXCEPT !.err = Panic("assertion failed", -1, -1)]
                      ELSE ForInputs(k + 1, [read EXCEPT !.buf = XorAssign(@, Decode(str)),
                                                         !.f = @ + 1])

\* the sink w of xor_inner: the -o file once created, else stdout.  The -o
\* file is written through a BufWriter, which is flushed when w is dropped,
\* at return or while a panic unwinds: data holds what the file holds then.
W == IF dest = <<>> THEN out
     ELSE IF nfiles = 1 THEN data[dest[1]] ELSE <<>>

\* while !finishing
WhileForever(fin) == TRUE
WhileNotFinishing(fin) == ~fin

\* one turn of `while !finishing`
XorRound ==
    /\ pc = "xor"
    /\ WhileNotFinishing(finishing)
    /\ LET st == ForInputs(1, [pos |-> pos, buf |-> buf, f |-> 0,
                               finishing |-> finishing, err |-> NoErr])
       IN  /\ pos' = st.pos
           /\ f' = st.f
           /\ finishing' = st.finishing
           /\ err' = st.err
           /\ IF st.err # NoErr
              THEN /\ pc' = "panic"
                   /\ buf' = st.buf
                   /\ UNCHANGED <<fsvars, out, i>>
              ELSE /\ IF dest = <<>>
                      THEN /\ out' = Append(out, Encode(st.buf))
                           /\ data' = data
                      ELSE /\ data' = WriteLine(data, dest[1], Encode(st.buf))
                           /\ out' = out
                   /\ buf' = NextRoundBuf(st.buf)
                   /\ i' = i + 1
                   /\ pc' = IF WhileNotFinishing(st.finishing) THEN "xor" ELSE "done"
                   /\ exist' = exist
    /\ UNCHANGED <<args, hist, nfiles, bufs>>

----------------------------------------------------------------------------
(* A second process, run after the first has ended successfully.           *)

Perms(n) == {q \in [1 .. n -> 1 .. n] : \A a, b \in 1 .. n : a # b => q[a] # q[b]}

\* main, entered again on the filesystem the first process left
Run(c, src, dst) ==
    /\ pc = "done"
    /\ prev = NoPrev
    /\ prev' = [cmd |-> cmd, source |-> source, dest |-> dest, pc |-> pc, w |-> W]
    /\ cmd' = c
    /\ source' = src
    /\ dest' = dst
    /\ lines' = lines
    /\ pc' = Entry(c)
    /\ exist0' = exist
    /\ data0' = data
    /\ err' = NoErr
    /\ nfiles' = 0
    /\ pos' = <<>>
    /\ i' = 0
    /\ f' = 0
    /\ finishing' = FALSE
    /\ buf' = ZeroSecret
    /\ bufs' = <<>>
    /\ out' = <<>>
    /\ UNCHANGED fsvars

\* xor over the files a split produced, in the order split was given them
Recombine ==
    /\ pc = "done"
    /\ cmd = "split"
    /\ Run("xor", dest, <<>>)

\* xor over the same files in another order
Reorder ==
    /\ pc = "done"
    /\ prev = NoPrev
    /\ cmd = "xor"
    /\ dest = <<>>
    /\ \E q \in Perms(Len(source)) :
          Run("xor", [k \in 1 .. Len(source) |-> source[q[k]]], <<>>)

----------------------------------------------------------------------------
(* The program: any command line, on any filesystem over FsPaths whose     *)
(* files all hold the same lines, one line repeated.                       *)

FsPaths == {1, 2, 3}
FsFiles == {[n \in 1 .. m |-> l] : m \in 0 .. MaxLines, l \in {Encode(1), Line("spaced", 1), BadLine, ShortLine}}
DestLists == SeqsUpTo(FsPaths, MaxFiles)

\* clap: Gen has any dest, Split and Xor have min_values = 2, Xor.dest is an Option
CommandLines ==
    [cmd : {"gen"}, source : {<<>>}, dest : DestLists, lines : 0 .. MaxLines]
    \cup [cmd : {"split"}, source : {<<p>> : p \in FsPaths},
          dest : {d \in DestLists : Len(d) >= 2}, lines : {0}]
    \cup [cmd : {"xor"}, source : {d \in DestLists : Len(d) >= 2},
          dest : {d \in DestLists : Len(d) <= 1}, lines : {0}]

Start(cl) ==
    /\ cmd = cl.cmd
    /\ source = cl.source
    /\ dest = cl.dest
    /\ lines = cl.lines
    /\ pc = Entry(cl.cmd)
    /\ exist0 = exist
    /\ data0 = data
    /\ prev = NoPrev
    /\ LocalsInit

Init ==
    /\ exist \in SUBSET FsPaths
    /\ \E c \in FsFiles : data = [p \in Paths |-> IF p \in exist THEN c ELSE <<>>]
    /\ \E cl \in CommandLines : Start(cl)

Next ==
    \/ OpenSource
    \/ OpenFiles
    \/ CreateOne
    \/ CreateFail
    \/ CreateDone
    \/ CreateFile
    \/ GenStdout
    \/ GenFile
    \/ SplitStep
    \/ XorRound

Spec == Init /\ [][Next]_vars

----------------------------------------------------------------------------
(* split, then xor over what it wrote.                                     *)

SplitSources == SeqsUpTo(GoodLines \cup {BadLine, ShortLine}, MaxLines)
\* N fresh destinations, or N - 1 fresh ones and then the source itself
SplitDests ==
    {[k \in 1 .. n |-> k + 1] : n \in 2 .. MaxFiles}
    \cup {[k \in 1 .. n |-> IF k = n THEN 1 ELSE k + 1] : n \in 2 .. MaxFiles}

InitSplit ==
    /\ exist = {1}
    /\ \E c \in SplitSources : data = [p \in Paths |-> IF p = 1 THEN c ELSE <<>>]
    /\ \E d \in SplitDests :
          Start([cmd |-> "split", source |-> <<1>>, dest |-> d, lines |-> 0])

NextSplit ==
    \/ OpenSource
    \/ CreateOne
    \/ CreateFail
    \/ CreateDone
    \/ SplitStep
    \/ Recombine
    \/ OpenFiles
    \/ XorRound

SpecSplit == InitSplit /\ [][NextSplit]_vars

----------------------------------------------------------------------------
(* xor over K files of any lengths, to stdout or to a fresh -o file.       *)

XorInputs == SeqsUpTo(CanonLines, MaxLines)

\* n input files at paths 1..n; the -o path, if any, is n + 1
XorOver(n, d) ==
    /\ exist = 1 .. n
    /\ \E c \in [1 .. n -> XorInputs] :
          data = [p \in Paths |-> IF p <= n THEN c[p] ELSE <<>>]
    /\ Start([cmd |-> "xor", source |-> [k \in 1 .. n |-> k], dest |-> d, lines |-> 0])

InitXor == \E n \in 2 .. MaxFiles : \E d \in {<<>>, <<n + 1>>} : XorOver(n, d)

NextXor ==
    \/ OpenFiles
    \/ CreateFile
    \/ XorRound

SpecXor == InitXor /\ [][NextXor]_vars

----------------------------------------------------------------------------
(* xor over K files to stdout, then over the same files reordered.         *)

InitReorder == \E n \in 2 .. MaxFiles : XorOver(n, <<>>)

NextReorder ==
    \/ OpenFiles
    \/ XorRound
    \/ Reorder

SpecReorder == InitReorder /\ [][NextReorder]_vars

----------------------------------------------------------------------------
(* xor over K files that make it abort, or not: files of any lengths, or   *)
(* files of one length in which one line does not decode.                  *)

\* the files c with line r of file k replaced by l
WithLine(c, k, r, l) == [c EXCEPT ![k][r] = l]

XorOverOneBad(n, d) ==
    /\ exist = 1 .. n
    /\ \E len \in 1 .. MaxLines : \E c \in [1 .. n -> [1 .. len -> CanonLines]] :
       \E k \in 1 .. n : \E r \in 1 .. len : \E l \in {BadLine, ShortLine} :
          data = [p \in Paths |-> IF p <= n THEN WithLine(c, k, r, l)[p] ELSE <<>>]
    /\ Start([cmd |-> "xor", source |-> [k \in 1 .. n |-> k], dest |-> d, lines |-> 0])

\* to stdout; and, for two inputs, to a fresh -o file as well
AbortDests(n) == IF n = 2 THEN {<<>>, <<n + 1>>} ELSE {<<>>}

InitAbort ==
    \E n \in 2 .. MaxFiles : \E d \in AbortDests(n) :
        XorOver(n, d) \/ XorOverOneBad(n, d)

NextAbort ==
    \/ OpenFiles
    \/ CreateFile
    \/ XorRound

SpecAbort == InitAbort /\ [][NextAbort]_vars

----------------------------------------------------------------------------
(* What the claims are stated with.  Parity is the XOR of bits, computed   *)
(* as a sum, apart from XorAssign.                                         *)

RECURSIVE Sum(_, _)
Sum(g, n) == IF n = 0 THEN 0 ELSE Sum(g, n - 1) + g[n]
Parity(g) == Sum(g, Len(g)) % 2

\* the secrets at row r of the files at `paths`
Row(paths, r) == [k \in 1 .. Len(paths) |-> Decode(data[paths[k]][r])]
Lens(paths) == {Len(data[paths[k]]) : k \in 1 .. Len(paths)}
MinLen(paths) == CHOOSE m \in Lens(paths) : \A n \in Lens(paths) : m <= n
AllDecodable(paths) ==
    \A k \in 1 .. Len(paths) : \A r \in 1 .. Len(data[paths[k]]) : Decodable(data[paths[k]][r])

SplitDone == cmd = "split" /\ pc = "done"
XorDone == cmd = "xor" /\ pc = "done"
RecombineDone == XorDone /\ prev.cmd = "split" /\ prev.pc = "done"

(* C1: split, then xor over the N files split wrote, gives an output with  *)
(* the same number of lines as the source and the same secret at each row. *)
C1_RoundTrip ==
    RecombineDone =>
        LET src == data[prev.source[1]] IN
        /\ Len(W) = Len(src)
        /\ \A r \in 1 .. Len(src) : Decode(W[r]) = Decode(src[r])

(* C2: after split, at every row the XOR of the N destination rows is the  *)
(* source secret; and the row split wrote last holds, in destinations 2..N, *)
(* the pads drawn for it and, in destination 1, the secret XOR those pads.  *)
C2_SplitShares ==
    /\ SplitDone =>
          \A r \in 1 .. Len(data[source[1]]) :
              /\ \A k \in 1 .. Len(dest) : Len(data[dest[k]]) >= r
              /\ Parity(Row(dest, r)) = Decode(data[source[1]][r])
    /\ (cmd = "split" /\ pc \in {"split", "done"} /\ i >= 1) =>
          /\ \A k \in 2 .. Len(dest) : data[dest[k]][i] = Encode(bufs[k - 1])
          /\ data[dest[1]][i] = Encode(Parity(<<Decode(data[source[1]][i])>> \o bufs))

C2_Witness ==
    /\ SplitDone
    /\ Len(dest) = 3
    /\ Len(data[source[1]]) = 2
    /\ Decode(data[source[1]][2]) = 1
    /\ bufs = <<1, 0>>

(* C10: when split has completed, every destination has as many lines as   *)
(* the source, and split stopped because the source was at end-of-stream.  *)
C10_SplitLengths ==
    SplitDone =>
        /\ \A k \in 1 .. Len(dest) : Len(data[dest[k]]) = Len(data[source[1]])
        /\ pos[1] = Len(data[source[1]])
        /\ i = Len(data[source[1]])

C10_Witness ==
    /\ SplitDone
    /\ Len(dest) = 3
    /\ Len(data[source[1]]) = 2
    /\ \A k \in 1 .. 3 : Len(data[dest[k]]) = 2

----------------------------------------------------------------------------
(* The Combiner.                                                           *)

EqualLens == Cardinality(Lens(source)) = 1
Structural == {"suddenly ended", "continues longer than previous file"}

(* C3: a successful xor over K files of L lines each has written exactly L *)
(* lines, none of them for the round in which every file was at its end.   *)
C3_OneLinePerDataRound ==
    (XorDone /\ EqualLens) => Len(W) = MinLen(source)

(* C4: the line xor writes for a round in which every input gave a         *)
(* decodable line is the encoding of the XOR of those K lines alone.       *)
C4_RoundIsXorOfRow ==
    (cmd = "xor" /\ AllDecodable(source)) =>
        \A r \in 1 .. Len(W) :
            r <= MinLen(source) => W[r] = Encode(Parity(Row(source, r)))

C4_Witness ==
    /\ XorDone
    /\ Len(source) = 3
    /\ MinLen(source) = 2
    /\ Row(source, 1) = <<1, 0, 0>>
    /\ Row(source, 2) = <<0, 1, 1>>
    /\ Len(W) >= 2

(* C5: over input files whose line counts differ, xor never ends           *)
(* successfully: it panics with a structural error in round MinLen, the    *)
(* first round in which one file is at its end and another is not.         *)
C5_MismatchAborts ==
    (cmd = "xor" /\ AllDecodable(source) /\ ~EqualLens) =>
        /\ pc # "done"
        /\ pc = "xor" => (~finishing /\ i <= MinLen(source))
        /\ pc = "panic" => (err.msg \in Structural /\ i = MinLen(source))

\* file 2 one line longer than file 1
C5_Witness ==
    /\ cmd = "xor"
    /\ Len(source) = 2
    /\ Len(data[source[1]]) = 1
    /\ Len(data[source[2]]) = 2
    /\ pc = "panic"
    /\ err.msg = "continues longer than previous file"

(* C6: over K files of L decodable lines each, xor does not panic, and it  *)
(* ends in round L: after L rounds that each read a line from every file   *)
(* and one more in which file 1 and then every other file is at its end.   *)
C6_EqualLengthsEnd ==
    (cmd = "xor" /\ AllDecodable(source) /\ EqualLens /\ pc \in {"xor", "done", "panic"}) =>
        /\ pc # "panic"
        /\ pc = "xor" => (~finishing /\ i <= MinLen(source))
        /\ pc = "done" =>
              /\ finishing
              /\ i = MinLen(source) + 1
              /\ f = 0
              /\ \A k \in 1 .. Len(source) : pos[k] = MinLen(source)

C6_Witness ==
    /\ XorDone
    /\ Len(source) = 3
    /\ EqualLens
    /\ MinLen(source) = 2
    /\ dest # <<>>

(* C7: xor over the same files in another order writes the same output.    *)
C7_OrderIndependent ==
    (XorDone /\ prev.cmd = "xor" /\ prev.pc = "done") => W = prev.w

C7_Witness ==
    /\ XorDone
    /\ prev.cmd = "xor"
    /\ prev.source = <<1, 2, 3>>
    /\ source = <<3, 1, 2>>
    /\ EqualLens
    /\ MinLen(source) = 2
    /\ Row(source, 1) = <<1, 0, 0>>
    /\ Len(W) = 3

----------------------------------------------------------------------------
(* Creation of destinations.                                               *)

WontOverwrite == pc = "panic" /\ err.msg = "btw, I won't overwrite"

(* C8: when gen or split fails to create one of its destinations, the      *)
(* paths that exist and what they hold are what they were before the run.  *)
C8_AllOrNothing ==
    (WontOverwrite /\ cmd \in {"gen", "split"}) => (exist = exist0 /\ data = data0)

\* the same fresh path named first and third, another fresh one in between
C8_Witness ==
    /\ WontOverwrite
    /\ cmd = "split"
    /\ Len(dest) = 3
    /\ dest[1] = dest[3]
    /\ dest[2] # dest[1]
    /\ {dest[1], dest[2]} \cap exist0 = {}

(* C9: a path that existed when the process started still exists and holds *)
(* what it held, in every state of every run; and a process gets past the  *)
(* creation of its destinations only if none of them existed.              *)
C9_NoOverwrite ==
    /\ \A p \in exist0 : p \in exist /\ data[p] = data0[p]
    /\ pc \in {"gen", "split", "xor", "done"} =>
          \A k \in 1 .. Len(dest) : dest[k] \notin exist0

\* the second destination existed, with lines in it; the first was created
C9_Witness ==
    /\ WontOverwrite
    /\ cmd = "gen"
    /\ Len(dest) = 2
    /\ dest[1] \notin exist0
    /\ dest[2] \in exist0
    /\ Len(data0[dest[2]]) = 2

----------------------------------------------------------------------------
(* What the shares of a row show.                                          *)

\* the shares split writes for a row with secret s, on pads `pads`, seen
\* through the destinations in J
View(s, pads, J) == [k \in J |-> Share(k, s, pads)]
Views(s, n, J) == {View(s, pads, J) : pads \in [1 .. (n - 1) -> Secrets]}
\* every set of destinations but the whole set
ProperSubsets(n) == (SUBSET (1 .. n)) \ {1 .. n}

\* every <<s, n, J, v>> with v in Views(s, n, J)
PossibleViews ==
    UNION {UNION {UNION {{<<s, n, J, v>> : v \in Views(s, n, J)}
        : J \in ProperSubsets(n)} : n \in 2 .. MaxFiles} : s \in Secrets}

\* the views of fewer than N shares are the same whatever the secret
ViewsAgree ==
    \A n \in 2 .. MaxFiles : \A J \in ProperSubsets(n) :
        \A s, t \in Secrets : Views(s, n, J) = Views(t, n, J)

(* C11: for every N >= 2 and every set J of fewer than N destinations, the *)
(* values the shares in J can take over all pad draws are the same for     *)
(* every source secret; and what split has written to the destinations in  *)
(* J, at every row, is among the values possible for each secret.          *)
C11_SharesHideSecret ==
    (cmd = "split" /\ pc \in {"split", "done"}) =>
        /\ ViewsAgree
        /\ \A J \in ProperSubsets(Len(dest)) : \A r \in 1 .. i : \A s \in Secrets :
              <<s, Len(dest), J, [k \in J |-> data[dest[k]][r]]>> \in PossibleViews

C11_Witness ==
    /\ cmd = "split"
    /\ pc = "split"
    /\ i = 1
    /\ Len(dest) = 3
    /\ Decode(data[source[1]][1]) = 1
    /\ data[dest[1]][1] = Encode(0)
    /\ data[dest[2]][1] = Encode(1)


----------------------------------------------------------------------------
\* the readers, 0-based as the diagnostics count them, that hold exactly n
\* lines / more than n lines
EndsAt(n) == {k \in 0 .. (Len(source) - 1) : Len(data[source[k + 1]]) = n}
GoesPast(n) == {k \in 0 .. (Len(source) - 1) : Len(data[source[k + 1]]) > n}
StructuralAbort == cmd = "xor" /\ pc = "panic" /\ err.msg \in Structural

(* C12: when xor aborts because a file ends before, or continues after,    *)
(* its peers, the file index in the message is the 0-based index of the    *)
(* file that ended early (resp. continued longer), and the message gives   *)
(* the round, i, in which the mismatch was detected.                       *)
C12_DiagnosticsLocate ==
    StructuralAbort =>
        /\ err.msg = "suddenly ended" =>
              err.f \in EndsAt(i) /\ \A k \in 0 .. (err.f - 1) : k \in GoesPast(i)
        /\ err.msg = "continues longer than previous file" =>
              err.f \in GoesPast(i) /\ \A k \in 0 .. (err.f - 1) : k \in EndsAt(i)
        /\ err.i = i

\* the part of C12 the code does satisfy: the index printed for a file that
\* ended early is that file's
C12_EndedEarlyLocated ==
    (StructuralAbort /\ err.msg = "suddenly ended") =>
        err.f \in EndsAt(i) /\ \A k \in 0 .. (err.f - 1) : k \in GoesPast(i)

\* what the code prints for a file that continues longer: always index 0,
\* which is the first file, the one that had ended
C12_ContinuesPrintsZero ==
    (StructuralAbort /\ err.msg = "continues longer than previous file") =>
        err.f = 0 /\ 0 \in EndsAt(i) /\ GoesPast(i) # {}



----------------------------------------------------------------------------
DecodeMsgs == {"error on line", "assertion failed"}

\* the inputs, 1-based, whose line r does not decode
BadAt(r) == {k \in 1 .. Len(source) :
                r <= Len(data[source[k]]) /\ ~Decodable(data[source[k]][r])}

\* a run that ended in one of the panics `msgs` stopped at the first line
\* that does not decode, wrote nothing for its row, and printed where it is
Located(msgs) ==
    /\ (cmd = "split" /\ pc = "panic" /\ err.msg \in msgs) =>
          LET j == pos[1] - 1 IN
          /\ BadAt(j + 1) = {1}
          /\ \A r \in 1 .. j : BadAt(r) = {}
          /\ \A k \in 1 .. Len(dest) : Len(data[dest[k]]) = j
          /\ err.i = j
    /\ (cmd = "xor" /\ pc = "panic" /\ err.msg \in msgs) =>
          /\ BadAt(i + 1) # {}
          /\ \A r \in 1 .. i : BadAt(r) = {}
          /\ Len(W) = i
          /\ err.i = i
          /\ err.f + 1 \in BadAt(i + 1)
          /\ \A k \in BadAt(i + 1) : err.f + 1 <= k

(* C13: in split and in xor the first line that fails to decode ends the   *)
(* run before anything is written for its row; the line number printed is  *)
(* the number of rows processed before it and, in xor, the file index      *)
(* printed is the 0-based position of the file that holds the line.        *)
C13_DecodeErrorsLocated == Located(DecodeMsgs)

\* the part of C13 the code does satisfy: lines the parser rejects
C13_ParseErrorsLocated == Located({"error on line"})

\* a line that parses to fewer than 32 bytes ends the run with no line
\* number and no file index
C13_ShortLineUnlocated ==
    (pc = "panic" /\ err.msg = "assertion failed") => err.i = -1 /\ err.f = -1

C13_SplitParseAbort ==
    cmd = "split" /\ pc = "panic" /\ err.msg = "error on line" /\ err.i = 1
C13_XorParseAbort ==
    cmd = "xor" /\ pc = "panic" /\ err.msg = "error on line" /\ err.i = 1 /\ err.f = 1


----------------------------------------------------------------------------
XorAbort == cmd = "xor" /\ pc = "panic" /\ err.msg \in (Structural \cup DecodeMsgs)

(* C14: when xor aborts in round i on a structural or a decode error, its  *)
(* destination holds exactly i lines, the XOR of rows 1..i of the inputs   *)
(* in order, and no line for the round that aborted.                       *)
C14_AbortKeepsFinishedRounds ==
    XorAbort =>
        /\ Len(W) = i
        /\ \A r \in 1 .. i : W[r] = Encode(Parity(Row(source, r)))

C14_Witness ==
    /\ XorAbort
    /\ err.msg = "error on line"
    /\ dest # <<>>
    /\ i = 1
    /\ Len(W) = 1
    /\ Row(source, 1) = <<1, 0>>
    /\ W[1] = Encode(1)

C14_StructuralAbortAfterOneRound ==
    XorAbort /\ err.msg \in Structural /\ i = 1 /\ Len(source) = 3 /\ W = <<Encode(1)>>


----------------------------------------------------------------------------
GenDone == cmd = "gen" /\ pc = "done"

(* C15: a gen run that ends has written exactly `lines` lines to each of   *)
(* the M destinations it created; it has written (`lines` lines) to stdout *)
(* exactly when M = 0, and nothing to stdout when M >= 1.                  *)
C15_GenWritesCountEach ==
    GenDone =>
        /\ \A k \in 1 .. Len(dest) :
              /\ dest[k] \notin exist0
              /\ dest[k] \in exist
              /\ Len(data[dest[k]]) = lines
              /\ \A r \in 1 .. lines : data[dest[k]][r] \in CanonLines
        /\ dest = <<>> => Len(out) = lines /\ \A r \in 1 .. lines : out[r] \in CanonLines
        /\ dest # <<>> => out = <<>>
        /\ \A p \in Paths : (\A k \in 1 .. Len(dest) : dest[k] # p) => data[p] = data0[p]

C15_Witness ==
    GenDone /\ Len(dest) = 2 /\ lines = 2 /\ out = <<>>
        /\ data[dest[1]] = <<Encode(0), Encode(1)>> /\ data[dest[2]] = <<Encode(1), Encode(1)>>

C15_StdoutWitness == GenDone /\ dest = <<>> /\ out = <<Encode(1), Encode(0)>>


----------------------------------------------------------------------------
\* split is at a row boundary: before a read_line, at its end, or stopped on
\* a line that did not decode
AtRowBoundary ==
    cmd = "split" /\ (pc \in {"split", "done"} \/ (pc = "panic" /\ err.msg \in DecodeMsgs))

\* the rows split has decoded
RowsDecoded == IF pc = "panic" THEN pos[1] - 1 ELSE pos[1]

(* C16: at every row boundary of split, and when it stops on a line that   *)
(* does not decode at row j, every one of the N destinations holds exactly *)
(* the j rows decoded so far, and at each of them the XOR of the N         *)
(* destination lines is the source's secret: no row is written in part.    *)
C16_SplitRowsWhole ==
    AtRowBoundary =>
        LET j == RowsDecoded IN
        /\ \A r \in 1 .. j : BadAt(r) = {}
        /\ pc = "panic" => BadAt(j + 1) = {1}
        /\ \A k \in 1 .. Len(dest) : Len(data[dest[k]]) = j
        /\ \A r \in 1 .. j : Parity(Row(dest, r)) = Decode(data[source[1]][r])

C16_Witness ==
    /\ AtRowBoundary
    /\ pc = "panic"
    /\ RowsDecoded = 1
    /\ Len(dest) = 3
    /\ Decode(data[source[1]][1]) = 1
    /\ Row(dest, 1) = <<1, 1, 1>>


----------------------------------------------------------------------------
Unopenable == {k \in 1 .. Len(source) : source[k] \notin exist0}
CouldntOpen == pc = "panic" /\ err.msg = "couldn't open for reading"

(* C17: split and xor open their inputs before they create any output: if  *)
(* the source of split, or any input of xor, cannot be opened, the run     *)
(* aborts with no destination created and no file changed, and it never    *)
(* gets past opening.                                                      *)
C17_OpenBeforeCreate ==
    /\ (cmd \in {"split", "xor"} /\ Unopenable # {}) =>
          /\ pc = "open" \/ CouldntOpen
          /\ exist = exist0
          /\ data = data0
          /\ nfiles = 0
          /\ out = <<>>
    /\ (cmd \in {"split", "xor"} /\ CouldntOpen) => Unopenable # {}

C17_Witness ==
    /\ cmd = "xor"
    /\ CouldntOpen
    /\ Unopenable = {2}
    /\ Len(dest) = 1
    /\ dest[1] \notin exist

C17_SplitWitness ==
    cmd = "split" /\ CouldntOpen /\ \A k \in 1 .. Len(dest) : dest[k] \notin exist


----------------------------------------------------------------------------
\* the rounds of `while !finishing` xor_inner has entered: those it finished
\* and the one it panicked in
Rounds == IF XorAbort THEN i + 1 ELSE i

(* C18: over K >= 2 finite input files xor always ends, with success or    *)
(* with a panic, after at most L1 + 1 rounds, L1 the number of lines of    *)
(* the first file; and in each round it reads at most one line from each   *)
(* file.                                                                   *)
C18_TerminatesWithinL1Rounds ==
    cmd = "xor" =>
        LET L1 == Len(data[source[1]]) IN
        /\ Rounds <= L1 + 1
        /\ pc = "xor" => Rounds <= L1 /\ ~finishing
        /\ \A k \in 1 .. Len(pos) : pos[k] <= Rounds /\ pos[k] <= Len(data[source[k]])

C18_Witness ==
    /\ XorDone
    /\ Len(source) = 3
    /\ Len(data[source[1]]) = 2
    /\ Rounds = 3
    /\ pos = <<2, 2, 2>>

C18_AbortInLastRound ==
    XorAbort /\ Len(data[source[1]]) = 1 /\ Rounds = 2 /\ pos = <<1, 2>>

====
